---- MODULE Spec2Model ----
(***************************************************************************)
(* Model of src/src/lib.rs: the rectangle scene, the vertex/index          *)
(* generation in State::new, State::resize, State::update, State::render   *)
(* and the event loop closure of run().                                    *)
(*                                                                         *)
(* Number representation.  f32 values are fixed-point integers counting    *)
(* tenths (200.0 is 2000, 0.7 is 7).  Every rectangle size of the model is *)
(* an even number of tenths, so the f32 division `size / 2.0` (exact in    *)
(* binary floating point) is the exact integer division by 2.  u32, u16    *)
(* and usize values are plain integers, reduced modulo 2^w where the       *)
(* source narrows them with `as`.                                          *)
(*                                                                         *)
(* Option<T> is a sequence of length 0 (None) or 1 (Some).                 *)
(***************************************************************************)
EXTENDS Integers, Sequences, FiniteSets, TLC

\* ---------------------------------------------------------------- bounds
\* Longest scene enumerated exhaustively over RectKinds.
MaxRects == 2
\* Length of the one long scene: the first length at which a rectangle's
\* vertex numbers no longer fit the index type.
BigRects == 16385
\* Largest window width and height (pixels) an event may carry.
MaxDim == 2

\* ------------------------------------------------------------ number types
Pow2(n) == 2 ^ n

\* `x as u16` on an unsigned integer: truncation to the low 16 bits.
AsU16(x) == x % Pow2(16)

\* `x as u32` on a usize: truncation to the low 32 bits, taken as two
\* 16-bit halves.
AsU32(x) == (x % Pow2(16)) + Pow2(16) * ((x \div Pow2(16)) % Pow2(16))

RECURSIVE BitLen(_)
BitLen(n) == IF n = 0 THEN 0 ELSE 1 + BitLen(n \div 2)

\* `n as f32` on a u32, in tenths: round to nearest, ties to even, on a
\* 24-bit significand, then the fixed-point scale.
U32AsF32(n) ==
    LET q == IF BitLen(n) > 24 THEN Pow2(BitLen(n) - 24) ELSE 1
        r == n % q
        d == n - r
        rounded == IF 2 * r < q THEN d
                   ELSE IF 2 * r > q THEN d + q
                   ELSE IF (d \div q) % 2 = 0 THEN d ELSE d + q
    IN  rounded * 10

\* `x / 2.0` on an f32.
HalfF32(x) == x \div 2

\* ----------------------------------------------------------------- Option
None == <<>>
Some(x) == <<x>>
IsSome(o) == Len(o) = 1
\* Option::unwrap on a Some.
Unwrap(o) == o[1]

\* ------------------------------------------------------------------ scene
\* The compiled-in scene.
RECTANGLES ==
    << [position |-> <<2000, 2000>>, size |-> <<1000, 1000>>,
        border_radius |-> 30,
        fill |-> Some([color |-> <<0, 0, 0, 7>>]),
        stroke |-> None, z_index |-> 5, softness |-> 50],
       [position |-> <<1980, 1980>>, size |-> <<1000, 1000>>,
        border_radius |-> 30,
        fill |-> Some([color |-> <<10, 0, 0, 10>>]),
        stroke |-> None, z_index |-> 0, softness |-> 10] >>

\* Values of struct Rect the scenes are built from: the two compiled-in
\* rectangles, a filled and stroked one, and a stroke-only one.
RectKinds ==
    { RECTANGLES[1], RECTANGLES[2],
      [position |-> <<100, 250>>, size |-> <<40, 60>>,
       border_radius |-> 0,
       fill |-> Some([color |-> <<0, 10, 0, 5>>]),
       stroke |-> Some([color |-> <<0, 0, 10>>, width |-> 20]),
       z_index |-> 20, softness |-> 0],
      [position |-> <<500, 500>>, size |-> <<20, 20>>,
       border_radius |-> 4,
       fill |-> None,
       stroke |-> Some([color |-> <<10, 10, 10>>, width |-> 10]),
       z_index |-> 10, softness |-> 20] }

SeqsUpTo(S, n) == UNION { [1..k -> S] : k \in 0..n }

\* A scene of BigRects filled rectangles.
BigScene == [i \in 1..BigRects |-> RECTANGLES[2 - (i % 2)]]

\* Scenes of the generation specification; the wide one adds BigScene.
GenScenes == SeqsUpTo(RectKinds, MaxRects)

\* Scenes of the event-loop specification: the compiled-in scene, the same
\* rectangles in the other order, the empty scene, and scenes with a
\* stroke-only rectangle.
MainScenes ==
    { RECTANGLES,
      <<RECTANGLES[2], RECTANGLES[1]>>,
      <<>>,
      <<RECTANGLES[1], CHOOSE r \in RectKinds : r.fill = None>>,
      <<CHOOSE r \in RectKinds : r.fill = None>> }

\* ------------------------------------------------------- vertex generation
\* Mutant of FillColor: `unwrap_or_default()` in place of `unwrap()`.
FillColorOrDefault(rect_i) ==
    IF IsSome(rect_i.fill)
    THEN [ok |-> TRUE, color |-> Unwrap(rect_i.fill).color]
    ELSE [ok |-> TRUE, color |-> <<0, 0, 0, 0>>]

\* `rect_i.fill.unwrap().color`: the colour, or the panic of unwrap on None.
FillColor(rect_i) ==
    IF IsSome(rect_i.fill)
    THEN [ok |-> TRUE, color |-> Unwrap(rect_i.fill).color]
    ELSE [ok |-> FALSE, color |-> <<>>]

\* One RectVertex.
RectVertexOf(rect_i, x, y) ==
    [position |-> <<x, y>>,
     z_index |-> rect_i.z_index,
     color |-> FillColor(rect_i).color,
     border_radius |-> U32AsF32(rect_i.border_radius),
     rect_pos |-> rect_i.position,
     rect_size |-> rect_i.size,
     rect_softness |-> rect_i.softness]

\* Mutant of PushVertices: the second and third corners pushed in the other
\* order.
PushVerticesSwapped(rect_i) ==
    << RectVertexOf(rect_i,
                    rect_i.position[1] + HalfF32(rect_i.size[1]),
                    rect_i.position[2] - HalfF32(rect_i.size[2])),
       RectVertexOf(rect_i,
                    rect_i.position[1] - HalfF32(rect_i.size[1]),
                    rect_i.position[2] + HalfF32(rect_i.size[2])),
       RectVertexOf(rect_i,
                    rect_i.position[1] + HalfF32(rect_i.size[1]),
                    rect_i.position[2] + HalfF32(rect_i.size[2])),
       RectVertexOf(rect_i,
                    rect_i.position[1] - HalfF32(rect_i.size[1]),
                    rect_i.position[2] - HalfF32(rect_i.size[2])) >>

\* The four vertices.push of one loop iteration.
PushVertices(rect_i) ==
    << RectVertexOf(rect_i,
                    rect_i.position[1] + HalfF32(rect_i.size[1]),
                    rect_i.position[2] - HalfF32(rect_i.size[2])),
       RectVertexOf(rect_i,
                    rect_i.position[1] + HalfF32(rect_i.size[1]),
                    rect_i.position[2] + HalfF32(rect_i.size[2])),
       RectVertexOf(rect_i,
                    rect_i.position[1] - HalfF32(rect_i.size[1]),
                    rect_i.position[2] + HalfF32(rect_i.size[2])),
       RectVertexOf(rect_i,
                    rect_i.position[1] - HalfF32(rect_i.size[1]),
                    rect_i.position[2] - HalfF32(rect_i.size[2])) >>

\* Mutant of PushIndices: the second triangle is not pushed.
PushIndicesOneTriangle(i) ==
    << AsU16(i * 4), AsU16(i * 4 + 2), AsU16(i * 4 + 1) >>

\* The six indices.push of loop iteration i (0-based).
PushIndices(i) ==
    << AsU16(i * 4), AsU16(i * 4 + 2), AsU16(i * 4 + 1),
       AsU16(i * 4), AsU16(i * 4 + 3), AsU16(i * 4 + 2) >>

\* Iterations lo .. hi-1 of `for i in 0..RECTANGLES.len()`, appended in
\* order.  A None fill panics in the first push of its iteration: the
\* result is then not ok and carries nothing (the Vecs are dropped).  The
\* range is evaluated by halves; the pushes happen left to right.
RECURSIVE GenLoop(_, _, _)
GenLoop(rects, lo, hi) ==
    IF hi <= lo THEN [ok |-> TRUE, vertices |-> <<>>, indices |-> <<>>]
    ELSE IF hi = lo + 1 THEN
        IF FillColor(rects[lo + 1]).ok
        THEN [ok |-> TRUE,
              vertices |-> PushVertices(rects[lo + 1]),
              indices |-> PushIndices(lo)]
        ELSE [ok |-> FALSE, vertices |-> <<>>, indices |-> <<>>]
    ELSE
        LET mid == (lo + hi) \div 2
            left == GenLoop(rects, lo, mid)
        IN  IF ~left.ok THEN left
            ELSE LET right == GenLoop(rects, mid, hi)
                 IN  IF ~right.ok THEN right
                     ELSE [ok |-> TRUE,
                           vertices |-> left.vertices \o right.vertices,
                           indices |-> left.indices \o right.indices]

\* num_vertices, num_indices, and the vertex/index Vecs of State::new.
Generate(rects) ==
    LET g == GenLoop(rects, 0, Len(rects))
    IN  [ok |-> g.ok,
         num_vertices |-> AsU32(Len(rects) * 4),
         num_indices |-> AsU32(Len(rects) * 6),
         vertices |-> g.vertices,
         indices |-> g.indices]

\* ------------------------------------------------------------------ state
VARIABLES
    scene,            \* RECTANGLES, as an input
    pc,               \* "start" (before State::new), "running", "panicked"
    hpc,              \* the thread's position inside State::new or the
                      \* RedrawRequested handler (where it panicked, when
                      \* pc = "panicked"), "idle" outside them
    control_flow,     \* *control_flow: "Poll" or "Exit"
    event,            \* the event the closure was last called with
    window_size,      \* window.inner_size(), owned by the window system
    scale_factor,     \* window.scale_factor(), in tenths
    size,             \* State.size
    config,           \* State.config (width and height)
    surface,          \* the configuration last given to surface.configure
    vertex_buffer,    \* State.vertex_buffer: None, or Some(contents)
    num_vertices,     \* State.num_vertices
    index_buffer,     \* State.index_buffer: None, or Some(contents)
    num_indices,      \* State.num_indices
    window_buffer,    \* State.window_buffer: None, or Some(WindowUniform)
    redraw_requested, \* window.request_redraw() pending
    log,              \* GPU and surface calls made by the current handler call
    drawn,            \* the index values consumed by the frame's draw_indexed
    result            \* what state.render() returned to the current handler call

vars == << scene, pc, hpc, control_flow, event, window_size, scale_factor,
           size, config, surface, vertex_buffer, num_vertices, index_buffer,
           num_indices, window_buffer, redraw_requested, log, drawn, result >>

PhysicalSize(w, h) == [width |-> w, height |-> h]

Sizes == { PhysicalSize(w, h) : w \in 0..MaxDim, h \in 0..MaxDim }

\* The sizes window.inner_size() can have when State::new reads it: the
\* window was just built with WindowBuilder's default size, so both
\* dimensions are positive (State::new passes them to surface.configure
\* unchecked).
PositiveSizes == { s \in Sizes : s.width > 0 /\ s.height > 0 }

\* Display scale factors 1.0 and 2.0.
ScaleFactors == {10, 20}

Ev(kind, new_size) == [kind |-> kind, size |-> new_size]

NoEvent == Ev("none", PhysicalSize(0, 0))

\* struct WindowUniform as update() and State::new fill it.
WindowUniform(ws, sf) ==
    [size |-> <<ws.width * 10, ws.height * 10>>, scale_factor |-> sf,
     padding |-> 0]

\* wgpu::SurfaceError.
SurfaceErrors == {"Timeout", "Outdated", "Lost", "OutOfMemory"}

\* The state when run() has built the window and is about to call State::new.
InitWith(scenes) ==
    /\ scene \in scenes
    /\ pc = "start"
    /\ hpc = "idle"
    /\ control_flow = "Poll"
    /\ event = NoEvent
    /\ window_size \in PositiveSizes
    /\ scale_factor \in ScaleFactors
    /\ size = PhysicalSize(0, 0)
    /\ config = PhysicalSize(0, 0)
    /\ surface = None
    /\ vertex_buffer = None
    /\ num_vertices = 0
    /\ index_buffer = None
    /\ num_indices = 0
    /\ window_buffer = None
    /\ redraw_requested = FALSE
    /\ log = <<>>
    /\ drawn = <<>>
    /\ result = "none"

Init == InitWith(MainScenes)

\* The generation specifications start from every scene of their set, in a
\* window of the largest size.
InitGen ==
    /\ InitWith(GenScenes)
    /\ window_size = PhysicalSize(MaxDim, MaxDim)

InitWide ==
    /\ InitWith(GenScenes \cup {BigScene})
    /\ window_size = PhysicalSize(MaxDim, MaxDim)

\* ---------------------------------------------------------------- startup
\* State::new when every unwrap succeeds.
NewOk ==
    /\ pc = "start"
    /\ LET g == Generate(scene)
       IN  /\ g.ok
           /\ vertex_buffer' = Some(g.vertices)
           /\ index_buffer' = Some(g.indices)
           /\ num_vertices' = g.num_vertices
           /\ num_indices' = g.num_indices
    /\ size' = window_size
    /\ config' = PhysicalSize(window_size.width, window_size.height)
    /\ surface' = Some(config')
    /\ window_buffer' = Some(WindowUniform(window_size, scale_factor))
    /\ log' = <<"configure">>
    /\ pc' = "running"
    /\ UNCHANGED << scene, hpc, control_flow, event, window_size,
                    scale_factor, redraw_requested, drawn, result >>

\* State::new when rect_i.fill.unwrap() meets a None: the panic leaves the
\* loop before create_buffer_init and surface.configure.
NewFillPanic ==
    /\ pc = "start"
    /\ ~Generate(scene).ok
    /\ pc' = "panicked"
    /\ hpc' = "vertices"
    /\ UNCHANGED << scene, control_flow, event, window_size,
                    scale_factor, size, config, surface, vertex_buffer,
                    num_vertices, index_buffer, num_indices, window_buffer,
                    redraw_requested, log, drawn, result >>

\* State::new when create_surface, request_adapter or request_device fails:
\* the unwrap panics before the scene is read.
NewDevicePanic ==
    /\ pc = "start"
    /\ pc' = "panicked"
    /\ hpc' = "device"
    /\ UNCHANGED << scene, control_flow, event, window_size,
                    scale_factor, size, config, surface, vertex_buffer,
                    num_vertices, index_buffer, num_indices, window_buffer,
                    redraw_requested, log, drawn, result >>

New == NewOk \/ NewFillPanic \/ NewDevicePanic

NextGen == New

SpecGen == InitGen /\ [][NextGen]_vars

SpecWide == InitWide /\ [][NextGen]_vars

\* ------------------------------------------------------------- State::resize
\* Mutant of resize: `||` in place of `&&`.
resizeEitherPositive(new_size) ==
    IF new_size.width > 0 \/ new_size.height > 0
    THEN [size |-> new_size,
          config |-> [config EXCEPT !.width = new_size.width,
                                    !.height = new_size.height],
          configured |-> TRUE]
    ELSE [size |-> size, config |-> config, configured |-> FALSE]

\* Mutant of resize: config.height is not assigned.
resizeKeepsConfigHeight(new_size) ==
    IF new_size.width > 0 /\ new_size.height > 0
    THEN [size |-> new_size,
          config |-> [config EXCEPT !.width = new_size.width],
          configured |-> TRUE]
    ELSE [size |-> size, config |-> config, configured |-> FALSE]

\* State::resize(new_size): the fields it leaves, and whether it called
\* surface.configure.
resize(new_size) ==
    IF new_size.width > 0 /\ new_size.height > 0
    THEN [size |-> new_size,
          config |-> [config EXCEPT !.width = new_size.width,
                                    !.height = new_size.height],
          configured |-> TRUE]
    ELSE [size |-> size, config |-> config, configured |-> FALSE]

\* The state after a call of State::resize from a handler whose log so far
\* is `done`.
CallResize(new_size, done) ==
    LET r == resize(new_size)
    IN  /\ size' = r.size
        /\ config' = r.config
        /\ surface' = IF r.configured THEN Some(r.config) ELSE surface
        /\ log' = IF r.configured THEN Append(done, "configure") ELSE done

\* --------------------------------------------------------------- event loop
\* Mutant of EventLoopReady: the closure is entered while a redraw is still
\* being handled.
EventLoopReentrant ==
    /\ pc = "running"
    /\ control_flow = "Poll"

\* event_loop.run calls the closure with one event at a time, on one thread,
\* until the control flow is Exit or the process has panicked; a call
\* returns before the next begins.
EventLoopReady ==
    /\ pc = "running"
    /\ control_flow = "Poll"
    /\ hpc = "idle"

\* Event::MainEventsCleared.
MainEventsCleared ==
    /\ EventLoopReady
    /\ event' = Ev("MainEventsCleared", PhysicalSize(0, 0))
    /\ redraw_requested' = TRUE
    /\ log' = <<>>
    /\ result' = "none"
    /\ UNCHANGED << scene, pc, hpc, control_flow, window_size, scale_factor,
                    size, config, surface, vertex_buffer, num_vertices,
                    index_buffer, num_indices, window_buffer, drawn >>

\* WindowEvent::CloseRequested.
CloseRequested ==
    /\ EventLoopReady
    /\ event' = Ev("CloseRequested", PhysicalSize(0, 0))
    /\ control_flow' = "Exit"
    /\ log' = <<>>
    /\ result' = "none"
    /\ UNCHANGED << scene, pc, hpc, window_size, scale_factor, size, config,
                    surface, vertex_buffer, num_vertices, index_buffer,
                    num_indices, window_buffer, redraw_requested, drawn >>

\* WindowEvent::Resized(physical_size); the window already has that size.
Resized(physical_size) ==
    /\ EventLoopReady
    /\ event' = Ev("Resized", physical_size)
    /\ window_size' = physical_size
    /\ CallResize(physical_size, <<>>)
    /\ result' = "none"
    /\ UNCHANGED << scene, pc, hpc, control_flow, scale_factor,
                    vertex_buffer, num_vertices, index_buffer, num_indices,
                    window_buffer, redraw_requested, drawn >>

\* WindowEvent::ScaleFactorChanged { new_inner_size, scale_factor }.
ScaleFactorChanged(new_inner_size, sf) ==
    /\ EventLoopReady
    /\ event' = Ev("ScaleFactorChanged", new_inner_size)
    /\ window_size' = new_inner_size
    /\ scale_factor' = sf
    /\ CallResize(new_inner_size, <<>>)
    /\ result' = "none"
    /\ UNCHANGED << scene, pc, hpc, control_flow, vertex_buffer,
                    num_vertices, index_buffer, num_indices, window_buffer,
                    redraw_requested, drawn >>

\* Any other event, and any event of another window: the `_ => {}` arms.
OtherEvent ==
    /\ EventLoopReady
    /\ event' = Ev("Other", PhysicalSize(0, 0))
    /\ log' = <<>>
    /\ result' = "none"
    /\ UNCHANGED << scene, pc, hpc, control_flow, window_size, scale_factor,
                    size, config, surface, vertex_buffer, num_vertices,
                    index_buffer, num_indices, window_buffer,
                    redraw_requested, drawn >>

\* ------------------------------------------------- Event::RedrawRequested
\* The closure is entered with RedrawRequested; the request is consumed.
RedrawRequested ==
    /\ EventLoopReady
    /\ event' = Ev("RedrawRequested", PhysicalSize(0, 0))
    /\ hpc' = "update"
    /\ redraw_requested' = FALSE
    /\ log' = <<>>
    /\ drawn' = <<>>
    /\ result' = "none"
    /\ UNCHANGED << scene, pc, control_flow, window_size, scale_factor, size,
                    config, surface, vertex_buffer, num_vertices,
                    index_buffer, num_indices, window_buffer >>

\* state.update(): queue.write_buffer of the window uniform.
Update ==
    /\ pc = "running"
    /\ hpc = "update"
    /\ window_buffer' = Some(WindowUniform(window_size, scale_factor))
    /\ log' = Append(log, "update")
    /\ hpc' = "prepare"
    /\ UNCHANGED << scene, pc, control_flow, event, window_size,
                    scale_factor, size, config, surface, vertex_buffer,
                    num_vertices, index_buffer, num_indices,
                    redraw_requested, drawn, result >>

\* State::render, text_renderer.prepare(..) returning Ok.
PrepareOk ==
    /\ pc = "running"
    /\ hpc = "prepare"
    /\ log' = Append(log, "prepare")
    /\ hpc' = "acquire"
    /\ UNCHANGED << scene, pc, control_flow, event, window_size,
                    scale_factor, size, config, surface, vertex_buffer,
                    num_vertices, index_buffer, num_indices, window_buffer,
                    redraw_requested, drawn, result >>

\* State::render, text_renderer.prepare(..) returning Err: the unwrap panics.
PrepareErr ==
    /\ pc = "running"
    /\ hpc = "prepare"
    /\ pc' = "panicked"
    /\ UNCHANGED << scene, hpc, control_flow, event, window_size,
                    scale_factor, size, config, surface, vertex_buffer,
                    num_vertices, index_buffer, num_indices, window_buffer,
                    redraw_requested, log, drawn, result >>

\* State::render, surface.get_current_texture() returning Ok.
AcquireOk ==
    /\ pc = "running"
    /\ hpc = "acquire"
    /\ log' = Append(log, "acquire")
    /\ hpc' = "record"
    /\ UNCHANGED << scene, pc, control_flow, event, window_size,
                    scale_factor, size, config, surface, vertex_buffer,
                    num_vertices, index_buffer, num_indices, window_buffer,
                    redraw_requested, drawn, result >>

\* Mutant of OnRenderErr: no arm for SurfaceError::Lost.
OnRenderErrLostLogged(e) ==
    IF e = "OutOfMemory" THEN "exit" ELSE "eprintln"

\* What the match on state.render()'s error does.
OnRenderErr(e) ==
    IF e = "Lost" THEN "resize"
    ELSE IF e = "OutOfMemory" THEN "exit"
    ELSE "eprintln"

\* State::render, surface.get_current_texture() returning Err(e): the `?`
\* returns it to the closure, whose match handles it and returns.
AcquireErr(e) ==
    /\ pc = "running"
    /\ hpc = "acquire"
    /\ result' = e
    /\ hpc' = "idle"
    /\ IF OnRenderErr(e) = "resize"
       THEN CallResize(size, log)
       ELSE UNCHANGED << size, config, surface, log >>
    /\ control_flow' = IF OnRenderErr(e) = "exit" THEN "Exit" ELSE control_flow
    /\ UNCHANGED << scene, pc, event, window_size, scale_factor,
                    vertex_buffer, num_vertices, index_buffer, num_indices,
                    window_buffer, redraw_requested, drawn >>

\* The commands State::render records into the pass before the text: the
\* clear of the colour attachment and the one draw_indexed.
RecordRects == <<"clear", "draw_indexed">>

\* Mutant of RecordPass: the text is rendered before the draw_indexed.
RecordPassTextFirst == <<"clear", "text", "draw_indexed">>

\* The commands of the whole pass.
RecordPass == RecordRects \o <<"text">>

\* draw_indexed(0..num_indices, 0, 0..1): the index values read, in order.
DrawIndexed == SubSeq(Unwrap(index_buffer), 1, num_indices)

\* State::render, the render pass, text_renderer.render(..) returning Ok.
RecordOk ==
    /\ pc = "running"
    /\ hpc = "record"
    /\ log' = log \o RecordPass
    /\ drawn' = DrawIndexed
    /\ hpc' = "submit"
    /\ UNCHANGED << scene, pc, control_flow, event, window_size,
                    scale_factor, size, config, surface, vertex_buffer,
                    num_vertices, index_buffer, num_indices, window_buffer,
                    redraw_requested, result >>

\* State::render, the render pass, text_renderer.render(..) returning Err:
\* the unwrap panics after the rectangles were recorded.
RecordErr ==
    /\ pc = "running"
    /\ hpc = "record"
    /\ log' = log \o RecordRects
    /\ drawn' = DrawIndexed
    /\ pc' = "panicked"
    /\ UNCHANGED << scene, hpc, control_flow, event, window_size,
                    scale_factor, size, config, surface, vertex_buffer,
                    num_vertices, index_buffer, num_indices, window_buffer,
                    redraw_requested, result >>

\* State::render, queue.submit(..).
Submit ==
    /\ pc = "running"
    /\ hpc = "submit"
    /\ log' = Append(log, "submit")
    /\ hpc' = "present"
    /\ UNCHANGED << scene, pc, control_flow, event, window_size,
                    scale_factor, size, config, surface, vertex_buffer,
                    num_vertices, index_buffer, num_indices, window_buffer,
                    redraw_requested, drawn, result >>

\* State::render, output.present().
Present ==
    /\ pc = "running"
    /\ hpc = "present"
    /\ log' = Append(log, "present")
    /\ hpc' = "trim"
    /\ UNCHANGED << scene, pc, control_flow, event, window_size,
                    scale_factor, size, config, surface, vertex_buffer,
                    num_vertices, index_buffer, num_indices, window_buffer,
                    redraw_requested, drawn, result >>

\* State::render, atlas.trim() and Ok(()); the closure's `Ok(_) => {}`.
Trim ==
    /\ pc = "running"
    /\ hpc = "trim"
    /\ log' = Append(log, "trim")
    /\ hpc' = "idle"
    /\ result' = "Ok"
    /\ UNCHANGED << scene, pc, control_flow, event, window_size,
                    scale_factor, size, config, surface, vertex_buffer,
                    num_vertices, index_buffer, num_indices, window_buffer,
                    redraw_requested, drawn >>

Next ==
    \/ New
    \/ MainEventsCleared
    \/ CloseRequested
    \/ \E physical_size \in Sizes : Resized(physical_size)
    \/ \E new_inner_size \in Sizes, sf \in ScaleFactors :
           ScaleFactorChanged(new_inner_size, sf)
    \/ OtherEvent
    \/ RedrawRequested
    \/ Update
    \/ PrepareOk
    \/ PrepareErr
    \/ AcquireOk
    \/ \E e \in SurfaceErrors : AcquireErr(e)
    \/ RecordOk
    \/ RecordErr
    \/ Submit
    \/ Present
    \/ Trim

Spec == Init /\ [][Next]_vars

\* ----------------------------------------------------------------- claims
HasUnfilled(rects) == \E i \in DOMAIN rects : rects[i].fill = None

\* C1: after State::new on a scene of N rectangles the vertex buffer holds
\* 4N vertices, the index buffer 6N indices, and num_vertices and
\* num_indices are 4N and 6N.
C1_VertexAndIndexCounts ==
    pc = "running" =>
        /\ Len(Unwrap(vertex_buffer)) = 4 * Len(scene)
        /\ Len(Unwrap(index_buffer)) = 6 * Len(scene)
        /\ num_vertices = 4 * Len(scene)
        /\ num_indices = 6 * Len(scene)

\* C1 witness: State::new has run on a scene of MaxRects rectangles.
C1_Witness ==
    /\ pc = "running"
    /\ Len(scene) = MaxRects
    /\ num_indices = 6 * MaxRects

\* The six index values rectangle i (0-based) is meant to have.
QuadIndices(i) ==
    << 4 * i, 4 * i + 2, 4 * i + 1, 4 * i, 4 * i + 3, 4 * i + 2 >>

\* C2: after State::new, for every rectangle i of the scene the index buffer
\* holds 4i, 4i+2, 4i+1, 4i, 4i+3, 4i+2 at positions 6i .. 6i+5, whatever the
\* scene's length.
C2_IndicesOfEveryRect ==
    pc = "running" =>
        \A i \in 0..(Len(scene) - 1) :
            SubSeq(Unwrap(index_buffer), 6 * i + 1, 6 * i + 6) = QuadIndices(i)

\* C3: after State::new, the four vertices of rectangle i are, in order, the
\* corners (cx+w/2, cy-h/2), (cx+w/2, cy+h/2), (cx-w/2, cy+h/2),
\* (cx-w/2, cy-h/2), and each carries rectangle i's z_index, fill colour,
\* border radius, centre, size and softness.
C3_VerticesOfEveryRect ==
    pc = "running" =>
        \A i \in 1..Len(scene) :
            LET r == scene[i]
                cx == r.position[1]
                cy == r.position[2]
                hw == r.size[1] \div 2
                hh == r.size[2] \div 2
                v(k) == Unwrap(vertex_buffer)[4 * (i - 1) + k]
            IN  /\ v(1).position = <<cx + hw, cy - hh>>
                /\ v(2).position = <<cx + hw, cy + hh>>
                /\ v(3).position = <<cx - hw, cy + hh>>
                /\ v(4).position = <<cx - hw, cy - hh>>
                /\ \A k \in 1..4 :
                       /\ v(k).z_index = r.z_index
                       /\ v(k).color = r.fill[1].color
                       /\ v(k).border_radius = r.border_radius * 10
                       /\ v(k).rect_pos = r.position
                       /\ v(k).rect_size = r.size
                       /\ v(k).rect_softness = r.softness

\* C3 witness: vertices exist for a scene of two different rectangles, the
\* second of them not square.
C3_Witness ==
    /\ pc = "running"
    /\ Len(scene) >= 2
    /\ scene[1] # scene[2]
    /\ scene[2].size[1] # scene[2].size[2]
    /\ Len(Unwrap(vertex_buffer)) >= 8

\* The closure has just handled a Resized or ScaleFactorChanged event.
IsResizeEvent(e) == e.kind \in {"Resized", "ScaleFactorChanged"}

HasZeroDim(s) == s.width = 0 \/ s.height = 0

\* C4: a step that handles a resize event whose width or height is 0 leaves
\* size, config and the surface's configuration as they were and does not
\* call surface.configure.
C4_ZeroResizeIgnored ==
    [][ (IsResizeEvent(event') /\ HasZeroDim(event'.size)) =>
            /\ size' = size
            /\ config' = config
            /\ surface' = surface
            /\ log' = <<>> ]_vars

\* C4 witness: a resize to width 0 and a positive height has been handled,
\* after the stored size had changed since the window uniform was written.
C4_Witness ==
    /\ pc = "running"
    /\ event.kind = "Resized"
    /\ event.size.width = 0
    /\ event.size.height > 0
    /\ size.width > 0
    /\ Unwrap(window_buffer).size # <<size.width * 10, size.height * 10>>
    /\ log = <<>>

\* C5: when a redraw's frame acquisition returned Lost, the handler has
\* configured the surface with the stored size, has submitted and presented
\* nothing and drawn nothing, has not set Exit, has not panicked and has
\* not requested a redraw; and the step leaves size and config unchanged.
C5_SurfaceLostRecovery ==
    /\ [](result = "Lost" =>
            /\ event.kind = "RedrawRequested"
            /\ log = <<"update", "prepare", "configure">>
            /\ surface = Some(PhysicalSize(size.width, size.height))
            /\ drawn = <<>>
            /\ hpc = "idle"
            /\ pc = "running"
            /\ control_flow = "Poll"
            /\ redraw_requested = FALSE)
    /\ [][ result' = "Lost" => (size' = size /\ config' = config) ]_vars

\* C5 witness: a redraw ended with Lost while the window has a zero
\* dimension, the stored size being the last positive one.
C5_Witness ==
    /\ result = "Lost"
    /\ event.kind = "RedrawRequested"
    /\ size # window_size

\* C6: once State::new has returned, a redraw ends the program (Exit or a
\* panic) only when state.render() returned OutOfMemory; any other failure
\* of the frame leaves the event loop running.
C6_OnlyOutOfMemoryEnds ==
    (event.kind = "RedrawRequested" /\ (pc = "panicked" \/ control_flow = "Exit"))
        => result = "OutOfMemory"

\* The positions of call c in the handler's log.
Calls(c) == { k \in DOMAIN log : log[k] = c }

\* C7: a frame holds at most one draw_indexed, directly after the clear; it
\* reads the indices of rectangle 0, then those of rectangle 1, and so on in
\* scene order; the text is rendered directly after it, and a frame that was
\* submitted holds both.
C7_DrawOrder ==
    /\ Cardinality(Calls("draw_indexed")) <= 1
    /\ Cardinality(Calls("text")) <= 1
    /\ \A k \in Calls("draw_indexed") :
           /\ k > 1 /\ log[k - 1] = "clear"
           /\ Len(drawn) = 6 * Len(scene)
           /\ \A a \in DOMAIN drawn : drawn[a] \div 4 = (a - 1) \div 6
    /\ \A t \in Calls("text") : t > 1 /\ log[t - 1] = "draw_indexed"
    /\ Calls("submit") # {} =>
           (Calls("draw_indexed") # {} /\ Calls("text") # {})

\* C7 witness: a frame was presented for a scene whose first rectangle has
\* the larger z_index.
C7_Witness ==
    /\ result = "Ok"
    /\ Len(scene) = 2
    /\ scene[1].z_index > scene[2].z_index
    /\ Len(drawn) = 12
    /\ Calls("text") # {}

\* C8: with a rectangle without fill in the scene, State::new never
\* returns: no vertex or index buffer is created, the surface is never
\* configured, and no event is handled.
C8_UnfilledRectAborts ==
    HasUnfilled(scene) =>
        /\ pc \in {"start", "panicked"}
        /\ vertex_buffer = None
        /\ index_buffer = None
        /\ surface = None
        /\ event = NoEvent
        /\ log = <<>>
        /\ drawn = <<>>

\* C8 witness: State::new panicked in the vertex loop on a scene whose first
\* rectangle is filled and whose second is not.
C8_Witness ==
    /\ pc = "panicked"
    /\ hpc = "vertices"
    /\ Len(scene) = 2
    /\ scene[1].fill # None
    /\ scene[2].fill = None

\* The calls of one frame, in order.
FrameOrder ==
    << "update", "prepare", "acquire", "clear", "draw_indexed", "text",
       "submit", "present", "trim" >>

\* The number of FrameOrder calls made when the handler is at position p.
CallsBefore(p) ==
    CASE p = "update" -> 0
      [] p = "prepare" -> 1
      [] p = "acquire" -> 2
      [] p = "record" -> 3
      [] p = "submit" -> 6
      [] p = "present" -> 7
      [] p = "trim" -> 8
      [] OTHER -> 9

\* C9: while a redraw is handled the calls made so far are the first calls
\* of FrameOrder, no other event is handled before the handler returns, a
\* frame that ended Ok made all calls of FrameOrder, and a frame whose
\* acquisition failed made update and prepare and no acquire, draw, submit,
\* present or trim.
C9_FrameSequence ==
    /\ (pc = "running" /\ hpc # "idle") =>
           /\ event.kind = "RedrawRequested"
           /\ result = "none"
           /\ log = SubSeq(FrameOrder, 1, CallsBefore(hpc))
    /\ result = "Ok" => (event.kind = "RedrawRequested" /\ log = FrameOrder)
    /\ result \in SurfaceErrors =>
           /\ event.kind = "RedrawRequested"
           /\ SubSeq(log, 1, 2) = <<"update", "prepare">>
           /\ \A k \in DOMAIN log : k > 2 => log[k] = "configure"
    /\ (pc = "panicked" /\ event.kind = "RedrawRequested") =>
           \E n \in 0..Len(FrameOrder) : log = SubSeq(FrameOrder, 1, n)

\* C9 witness: a whole frame was made.
C9_Witness ==
    /\ result = "Ok"
    /\ hpc = "idle"
    /\ event.kind = "RedrawRequested"
    /\ log = FrameOrder

\* A step that handles a resize event with both dimensions positive.
IsPositiveResize(e) == IsResizeEvent(e) /\ ~HasZeroDim(e.size)

\* C10: once State::new has returned, size and config agree in width and
\* height; a step handling a resize event with both dimensions positive sets
\* size, config and the surface's configuration to the new size; no other
\* step changes size or config.
C10_SizeMatchesConfig ==
    /\ [](pc = "running" =>
            (size.width = config.width /\ size.height = config.height))
    /\ [][ IsPositiveResize(event') =>
              /\ size' = event'.size
              /\ config' = PhysicalSize(event'.size.width, event'.size.height)
              /\ surface' = Some(config')
              /\ log' = <<"configure">> ]_vars
    /\ [][ (pc = "running" /\ (size' # size \/ config' # config)) =>
              IsPositiveResize(event') ]_vars

\* C10 witness: a scale-factor change to a positive size, other than the
\* size the window uniform was last written with, was handled.
C10_Witness ==
    /\ pc = "running"
    /\ event.kind = "ScaleFactorChanged"
    /\ ~HasZeroDim(event.size)
    /\ Unwrap(window_buffer).size # <<size.width * 10, size.height * 10>>
    /\ size = event.size
    /\ config = event.size
    /\ log = <<"configure">>

====
